---- MODULE Spec2Model ----
(***************************************************************************)
(* Model of src/streamlit_app.py (ChartChat): the generate -> sanitize ->  *)
(* validate -> refine pipeline and the session's workflow history.         *)
(*                                                                         *)
(* A Python string is a sequence of tokens.  A token stands for a piece of *)
(* text that the program's string operations treat as a unit: the literal  *)
(* pieces the code searches for, a blank, a newline, and "x" for any other *)
(* run of source text (which contains none of the former).                 *)
(***************************************************************************)
EXTENDS Integers, Sequences, FiniteSets, TLC

\* The session: st.session_state's history and current artifact, what the latest
\* script run did, and whether a revert has happened since the latest append.
VARIABLES workflow_history, current_viz, last, reverted

\* A text under the sanitizer and the validator, taken on their own: the text
\* given, the results of the successive sanitizer passes, the validator's verdict.
VARIABLES text, cleaned, verdict

session_vars == <<workflow_history, current_viz, last, reverted>>
text_vars    == <<text, cleaned, verdict>>

vars == <<workflow_history, current_viz, last, reverted, text, cleaned, verdict>>

-----------------------------------------------------------------------------
(* Tokens *)

NL         == "\n"
Sp         == " "
\* The markdown fence (three backquotes), which a string of this notation cannot hold.
Fence      == "~~~"
Lang       == "javascript"
Hash       == "#"
LBrace     == "{"
RBrace     == "}"
FnHead     == "function createVisualization"
FnHeadWide == "function  createVisualization"
Params     == "(data, svgElement)"
Js         == "x"

Whitespace == {Sp, NL}

-----------------------------------------------------------------------------
(* Python string primitives on token sequences *)

Indices(s) == [i \in 1..Len(s) |-> i]

\* The tokens of s at the indices idx, in that order.
At(s, idx) == [k \in 1..Len(idx) |-> s[idx[k]]]

\* str.replace(pat, ""), for a pattern no two occurrences of which can overlap
\* (the two patterns of the program are such): every occurrence is removed.
Remove(s, pat) ==
    LET n       == Len(pat)
        starts  == {i \in 1..(Len(s) - n + 1) : SubSeq(s, i, i + n - 1) = pat}
        Kept(j) == \A i \in starts : j < i \/ j > i + n - 1
    IN  At(s, SelectSeq(Indices(s), Kept))

\* str.split('\n'): the lines of s between its newlines, always at least one.
Split(s) ==
    LET IsNL(i) == s[i] = NL
        nl      == SelectSeq(Indices(s), IsNL)
    IN  [k \in 1..(Len(nl) + 1) |->
            SubSeq(s, IF k = 1 THEN 1 ELSE nl[k - 1] + 1,
                      IF k = Len(nl) + 1 THEN Len(s) ELSE nl[k] - 1)]

\* '\n'.join(lines)
RECURSIVE Join(_)
Join(lines) ==
    IF lines = <<>> THEN <<>>
    ELSE IF Len(lines) = 1 THEN lines[1]
    ELSE LET h == Len(lines) \div 2
         IN  Join(SubSeq(lines, 1, h)) \o <<NL>> \o Join(SubSeq(lines, h + 1, Len(lines)))

\* str.strip()
RECURSIVE LStrip(_)
LStrip(s) == IF s # <<>> /\ Head(s) \in Whitespace THEN LStrip(Tail(s)) ELSE s

RECURSIVE RStrip(_)
RStrip(s) ==
    IF s # <<>> /\ s[Len(s)] \in Whitespace THEN RStrip(SubSeq(s, 1, Len(s) - 1)) ELSE s

Strip(s) == LStrip(RStrip(s))

\* str.startswith(tok) for a one-token prefix
StartsWith(s, tok) == s # <<>> /\ Head(s) = tok

\* str.count(tok)
Count(s, tok) == Cardinality({i \in 1..Len(s) : s[i] = tok})

\* tok in s
Contains(s, tok) == \E i \in 1..Len(s) : s[i] = tok

-----------------------------------------------------------------------------
(* validate_d3_code *)

\* The index after the run of whitespace that starts at i (the regex's \s*).
RECURSIVE SkipWs(_, _)
SkipWs(s, i) == IF i <= Len(s) /\ s[i] \in Whitespace THEN SkipWs(s, i + 1) ELSE i

\* re.search(r'function\s+createVisualization\s*\(data,\s*svgElement\)\s*{', code)
HasSignature(code) ==
    \E i \in 1..Len(code) :
        /\ code[i] \in {FnHead, FnHeadWide}
        /\ LET p == SkipWs(code, i + 1) IN
             /\ p <= Len(code) /\ code[p] = Params
             /\ LET b == SkipWs(code, p + 1) IN b <= Len(code) /\ code[b] = LBrace

d3_methods == {"d3.select", "d3.scaleLinear", "d3.axisBottom", "d3.axisLeft"}

HasD3Method(code) == \E m \in d3_methods : Contains(code, m)

BalancedBraces(code) == Count(code, LBrace) = Count(code, RBrace)

\* A validator that does not count the braces.
validate_d3_code_nobraces(code) ==
    IF ~HasSignature(code) THEN FALSE
    ELSE IF ~HasD3Method(code) THEN FALSE
    ELSE TRUE

validate_d3_code(code) ==
    IF ~HasSignature(code) THEN FALSE
    ELSE IF ~HasD3Method(code) THEN FALSE
    ELSE IF ~BalancedBraces(code) THEN FALSE
    ELSE TRUE

-----------------------------------------------------------------------------
(* clean_d3_response *)

WrapperOpen  == <<FnHead, Params, Sp, LBrace>>
WrapperClose == <<RBrace>>

StripFences(response) == Remove(Remove(response, <<Fence, Lang>>), <<Fence>>)

LooksLikeJs(line) == Strip(line) # <<>> /\ ~StartsWith(Strip(line), Hash)

\* [line for line in lines if line.strip() and not line.strip().startswith('#')]
KeepJsLines(lines) == SelectSeq(lines, LooksLikeJs)

HasEntryLine(lines) == \E i \in 1..Len(lines) : StartsWith(Strip(lines[i]), FnHead)

\* A sanitizer whose synthesized wrapper line is not one its own entry-line test
\* recognises.
clean_d3_response_rewrap(response) ==
    LET clean_lines == KeepJsLines(Split(StripFences(response)))
    IN  IF ~HasEntryLine(clean_lines)
        THEN Join(<< <<FnHeadWide, Params, Sp, LBrace>> >> \o clean_lines \o <<WrapperClose>>)
        ELSE Join(clean_lines)

clean_d3_response(response) ==
    LET clean_lines == KeepJsLines(Split(StripFences(response)))
    IN  IF ~HasEntryLine(clean_lines)
        THEN Join(<<WrapperOpen>> \o clean_lines \o <<WrapperClose>>)
        ELSE Join(clean_lines)

-----------------------------------------------------------------------------
(* generate_fallback_visualization: the literal of lines 268-322, one     *)
(* sequence per line of the literal.                                       *)

fallback_code ==
    Join(<< <<>>,
            <<Sp, FnHead, Params, Sp, LBrace>>,
            <<Sp, Js, LBrace, Js, RBrace, Js>>,
            <<Sp, Js>>,
            <<Sp, Js>>,
            <<Sp>>,
            <<Sp, Js>>,
            <<Sp, Js>>,
            <<Sp>>,
            <<Sp, Js>>,
            <<Sp, Js, LBrace, Js, RBrace, Js, LBrace, Js, RBrace, Js>>,
            <<>>,
            <<Sp, Js>>,
            <<Sp, Js>>,
            <<Sp, Js>>,
            <<>>,
            <<Sp, Js>>,
            <<Sp, Js>>,
            <<Sp, Js>>,
            <<Sp, Js>>,
            <<>>,
            <<Sp, Js, "d3.scaleLinear", Js>>,
            <<Sp, Js>>,
            <<Sp, Js>>,
            <<>>,
            <<Sp, Js>>,
            <<Sp, Js>>,
            <<Sp, Js>>,
            <<Sp, Js>>,
            <<Sp, Js>>,
            <<Sp, Js>>,
            <<Sp, Js>>,
            <<Sp, Js>>,
            <<>>,
            <<Sp, Js>>,
            <<Sp, Js, LBrace, Js, RBrace, Js>>,
            <<Sp, Js, "d3.axisBottom", Js>>,
            <<>>,
            <<Sp, Js>>,
            <<Sp, Js, "d3.axisLeft", Js>>,
            <<>>,
            <<Sp, Js>>,
            <<Sp, Js>>,
            <<Sp, Js>>,
            <<Sp, Js>>,
            <<Sp, Js>>,
            <<>>,
            <<Sp, Js>>,
            <<Sp, Js>>,
            <<Sp, Js>>,
            <<Sp, Js>>,
            <<Sp, Js>>,
            <<Sp, Js>>,
            <<Sp, RBrace>>,
            <<Sp>> >>)

\* The literal with its closing lines lost.
fallback_unclosed == SubSeq(fallback_code, 1, Len(fallback_code) - 5)

generate_fallback_visualization == fallback_code

-----------------------------------------------------------------------------
(* The backend (client.chat.completions.create) and the pipeline *)

\* One backend call either returns a message text or raises.
Text(t)   == [kind |-> "text", text |-> t]
Raise     == [kind |-> "raise", text |-> <<>>]

max_attempts == 3

\* generate_d3_code without the check for an empty reply.
generate_d3_code_unchecked(backend) ==
    LET r == backend[1] IN
    IF r.kind = "raise"
    THEN [code |-> generate_fallback_visualization, fellback |-> TRUE, calls |-> 1]
    ELSE [code |-> r.text, fellback |-> FALSE, calls |-> 1]

\* generate_d3_code: one backend call; an exception (the call raising, or the
\* ValueError of an empty reply) is caught and answered with the fallback.
generate_d3_code(backend) ==
    LET r == backend[1] IN
    IF r.kind = "raise"
    THEN [code |-> generate_fallback_visualization, fellback |-> TRUE, calls |-> 1]
    ELSE LET d3_code == r.text IN
         IF Strip(d3_code) = <<>>
         THEN [code |-> generate_fallback_visualization, fellback |-> TRUE, calls |-> 1]
         ELSE [code |-> d3_code, fellback |-> FALSE, calls |-> 1]

\* The for loop of refine_d3_code. `calls` is the number of backend calls made so
\* far in the request; the loop's next call reads backend[calls + 1].
RECURSIVE RefineLoop(_, _, _, _, _)
RefineLoop(initial_code, attempt, attempts, backend, calls) ==
    IF attempt >= attempts
    THEN [status |-> "ok", code |-> initial_code, calls |-> calls]
    ELSE IF validate_d3_code(initial_code)
    THEN [status |-> "ok", code |-> initial_code, calls |-> calls]
    ELSE LET response == backend[calls + 1] IN
         IF response.kind = "raise"
         THEN [status |-> "raised", code |-> <<>>, calls |-> calls + 1]
         ELSE RefineLoop(clean_d3_response(response.text), attempt + 1, attempts,
                         backend, calls + 1)

\* refine_d3_code with the loop run once too often.
refine_d3_code_extra(initial_code, backend, calls) ==
    RefineLoop(initial_code, 0, max_attempts + 1, backend, calls)

refine_d3_code(initial_code, backend, calls) ==
    RefineLoop(initial_code, 0, max_attempts, backend, calls)

\* The record of one run of the pipeline: how it ended, the artifact returned,
\* the backend outcomes it consumed, and the calls made by each stage.
Run(status, code, backend, g, calls) ==
    [status |-> status, code |-> code, trace |-> SubSeq(backend, 1, calls),
     gen_calls |-> g.calls, refine_calls |-> calls - g.calls, fellback |-> g.fellback]

\* generate_and_validate_d3_code returning the reply as received when it is valid
\* once cleaned.
generate_and_validate_raw(backend) ==
    LET g            == generate_d3_code(backend)
        initial_code == g.code
        cleaned_code == clean_d3_response(initial_code)
    IN  IF validate_d3_code(cleaned_code)
        THEN Run("ok", initial_code, backend, g, g.calls)
        ELSE LET r == refine_d3_code(cleaned_code, backend, g.calls)
             IN  Run(r.status, r.code, backend, g, r.calls)

generate_and_validate_d3_code(backend) ==
    LET g            == generate_d3_code(backend)
        initial_code == g.code
        cleaned_code == clean_d3_response(initial_code)
    IN  IF validate_d3_code(cleaned_code)
        THEN Run("ok", cleaned_code, backend, g, g.calls)
        ELSE LET r == refine_d3_code(cleaned_code, backend, g.calls)
             IN  Run(r.status, r.code, backend, g, r.calls)

-----------------------------------------------------------------------------
(* Inputs *)

\* A reply in a markdown fence whose code is a complete artifact.
RawValid   == <<Fence, Lang, NL, FnHead, Params, Sp, LBrace, NL,
                Sp, "d3.select", Js, NL, RBrace, NL, Fence>>
\* A reply with the body only: no entry point of its own.
RawBare    == <<"d3.scaleLinear", Js>>
\* A reply cut short: the entry point is never closed.
RawInvalid == <<FnHead, Params, Sp, LBrace, NL, Sp, "d3.axisLeft", Js>>
\* An empty reply.
RawEmpty   == <<>>

Outcomes        == {Text(RawValid), Text(RawBare), Text(RawInvalid), Text(RawEmpty), Raise}
NominalOutcomes == {Text(RawValid)}

\* The number of backend outcomes scripted for one request.
MaxBackendCalls == 5

Scripts(outcomes) == [1..MaxBackendCalls -> outcomes]

PipelineRuns == {generate_and_validate_d3_code(b) : b \in Scripts(Outcomes)}
NominalRuns  == {generate_and_validate_d3_code(b) : b \in Scripts(NominalOutcomes)}

UserInputs == {"", "make the bars red"}

\* What the user may leave in the code editor besides the current artifact.
EditedCode == <<FnHeadWide, Params, LBrace, "d3.axisBottom", Js, RBrace>>
BrokenEdit == <<FnHead, Params, Sp, LBrace, Js, RBrace>>

EditorTexts        == {EditedCode, BrokenEdit}
NominalEditorTexts == {EditedCode}

\* Bounds on the length of the history explored.
MaxHistory     == 3
MaxLongHistory == 12
\* Bound on the manual entries held by the long histories.
MaxManualEntries == 2

-----------------------------------------------------------------------------
(* Session state *)

MAX_WORKFLOW_HISTORY == 10

\* st.session_state.current_viz: None, or a string.
None       == <<>>
Some(code) == <<code>>

NoRun == [status |-> "none", code |-> <<>>, trace |-> <<>>,
          gen_calls |-> 0, refine_calls |-> 0, fellback |-> FALSE]

\* What the latest script run did: the event handled, the pipeline run it made,
\* the step reverted to, the text executed from the editor.
Did(op, run, step, editor) == [op |-> op, run |-> run, step |-> step, editor |-> editor]

Unchecked == [checked |-> FALSE, code |-> <<>>, result |-> FALSE]

\* No text is under study.
NoText ==
    /\ text = <<>>
    /\ cleaned = <<>>
    /\ verdict = Unchecked

\* Lines 21-27: an empty history and no current visualization.
NewSession ==
    /\ workflow_history = <<>>
    /\ current_viz = None
    /\ last = Did("none", NoRun, 0, <<>>)
    /\ reverted = FALSE

Init == NewSession /\ NoText

IsManual(entry) == "version" \notin DOMAIN entry

ManualEntries == Cardinality({i \in 1..Len(workflow_history) : IsManual(workflow_history[i])})

\* Lines 359-367: the first run with both files uploaded and no visualization yet.
InitialGeneration(runs) ==
    /\ current_viz = None
    /\ \E run \in runs :
        /\ last' = Did("initial", run, 0, <<>>)
        /\ IF run.status = "raised"
           THEN UNCHANGED <<current_viz, workflow_history>>
           ELSE LET d3_code == run.code IN
                /\ current_viz' = Some(d3_code)
                /\ workflow_history' = Append(workflow_history,
                       [version |-> Len(workflow_history) + 1,
                        request |-> "Initial comparative visualization",
                        code    |-> d3_code])

\* An "Update Visualization" that also records the candidate the refinement
\* started from.
UpdateVisualization_keepall(runs, cap) ==
    /\ current_viz # None
    /\ \E user_input \in UserInputs :
        IF user_input = ""
        THEN /\ last' = Did("update_noinput", NoRun, 0, <<>>)
             /\ UNCHANGED <<current_viz, workflow_history>>
        ELSE \E run \in runs :
             /\ last' = Did("update", run, 0, <<>>)
             /\ IF run.status = "raised"
                THEN UNCHANGED <<current_viz, workflow_history>>
                ELSE LET first == [version |-> Len(workflow_history) + 1,
                                   request |-> user_input,
                                   code    |-> clean_d3_response(run.trace[1].text)]
                         kept  == IF run.refine_calls > 0
                                  THEN Append(workflow_history, first)
                                  ELSE workflow_history
                     IN  /\ Len(kept) < cap
                         /\ current_viz' = Some(run.code)
                         /\ workflow_history' = Append(kept,
                                [version |-> Len(kept) + 1,
                                 request |-> user_input,
                                 code    |-> run.code])

\* An "Update Visualization" that records the request before the pipeline runs.
UpdateVisualization_eager(runs, cap) ==
    /\ current_viz # None
    /\ \E user_input \in UserInputs :
        IF user_input = ""
        THEN /\ last' = Did("update_noinput", NoRun, 0, <<>>)
             /\ UNCHANGED <<current_viz, workflow_history>>
        ELSE \E run \in runs :
             /\ last' = Did("update", run, 0, <<>>)
             /\ Len(workflow_history) < cap
             /\ current_viz' = IF run.status = "raised" THEN current_viz ELSE Some(run.code)
             /\ workflow_history' = Append(workflow_history,
                    [version |-> Len(workflow_history) + 1,
                     request |-> user_input,
                     code    |-> current_viz'[1]])

\* An "Update Visualization" that evicts the oldest entry past the capacity, as
\* "Execute Code" does.
UpdateVisualization_evicting(runs, cap) ==
    /\ current_viz # None
    /\ \E user_input \in UserInputs :
        IF user_input = ""
        THEN /\ last' = Did("update_noinput", NoRun, 0, <<>>)
             /\ UNCHANGED <<current_viz, workflow_history>>
        ELSE \E run \in runs :
             /\ last' = Did("update", run, 0, <<>>)
             /\ IF run.status = "raised"
                THEN UNCHANGED <<current_viz, workflow_history>>
                ELSE LET appended == Append(workflow_history,
                                            [version |-> Len(workflow_history) + 1,
                                             request |-> user_input,
                                             code    |-> run.code])
                     IN  /\ Len(workflow_history) < cap
                         /\ current_viz' = Some(run.code)
                         /\ workflow_history' =
                                IF Len(appended) > MAX_WORKFLOW_HISTORY
                                THEN Tail(appended)
                                ELSE appended

\* Lines 376-388: the "Update Visualization" button.
UpdateVisualization(runs, cap) ==
    /\ current_viz # None
    /\ \E user_input \in UserInputs :
        IF user_input = ""
        THEN /\ last' = Did("update_noinput", NoRun, 0, <<>>)
             /\ UNCHANGED <<current_viz, workflow_history>>
        ELSE \E run \in runs :
             /\ last' = Did("update", run, 0, <<>>)
             /\ IF run.status = "raised"
                THEN UNCHANGED <<current_viz, workflow_history>>
                ELSE LET modified_d3_code == run.code IN
                     /\ Len(workflow_history) < cap
                     /\ current_viz' = Some(modified_d3_code)
                     /\ workflow_history' = Append(workflow_history,
                            [version |-> Len(workflow_history) + 1,
                             request |-> user_input,
                             code    |-> modified_d3_code])

\* An "Execute Code" that records the edit but goes on showing the old code.
ExecuteCode_stale(texts, cap, manualcap) ==
    /\ current_viz # None
    /\ \E edit_enabled \in BOOLEAN, code_editor \in texts \cup {current_viz[1]} :
        IF edit_enabled /\ validate_d3_code(code_editor)
        THEN LET appended == Append(workflow_history,
                                    [request |-> "Manual code edit",
                                     code    |-> code_editor])
             IN  /\ Len(workflow_history) < cap
                 /\ ManualEntries < manualcap
                 /\ last' = Did("edit", NoRun, 0, code_editor)
                 /\ workflow_history' =
                        IF Len(appended) > MAX_WORKFLOW_HISTORY
                        THEN Tail(appended)
                        ELSE appended
                 /\ UNCHANGED current_viz
        ELSE /\ last' = Did(IF edit_enabled THEN "edit_invalid" ELSE "edit_disabled",
                            NoRun, 0, code_editor)
             /\ UNCHANGED <<current_viz, workflow_history>>

\* An "Execute Code" that runs the editor's code whether or not editing is enabled.
ExecuteCode_unguarded(texts, cap, manualcap) ==
    /\ current_viz # None
    /\ \E edit_enabled \in BOOLEAN, code_editor \in texts \cup {current_viz[1]} :
        IF validate_d3_code(code_editor)
        THEN LET appended == Append(workflow_history,
                                    [request |-> "Manual code edit",
                                     code    |-> code_editor])
             IN  /\ Len(workflow_history) < cap
                 /\ ManualEntries < manualcap
                 /\ last' = Did(IF edit_enabled THEN "edit" ELSE "edit_disabled",
                                NoRun, 0, code_editor)
                 /\ current_viz' = Some(code_editor)
                 /\ workflow_history' =
                        IF Len(appended) > MAX_WORKFLOW_HISTORY
                        THEN Tail(appended)
                        ELSE appended
        ELSE /\ last' = Did(IF edit_enabled THEN "edit_invalid" ELSE "edit_disabled",
                            NoRun, 0, code_editor)
             /\ UNCHANGED <<current_viz, workflow_history>>

\* An "Execute Code" whose eviction pops the newest entry instead of the oldest.
ExecuteCode_popnewest(texts, cap, manualcap) ==
    /\ current_viz # None
    /\ \E edit_enabled \in BOOLEAN, code_editor \in texts \cup {current_viz[1]} :
        IF edit_enabled /\ validate_d3_code(code_editor)
        THEN LET appended == Append(workflow_history,
                                    [request |-> "Manual code edit",
                                     code    |-> code_editor])
             IN  /\ Len(workflow_history) < cap
                 /\ ManualEntries < manualcap
                 /\ last' = Did("edit", NoRun, 0, code_editor)
                 /\ current_viz' = Some(code_editor)
                 /\ workflow_history' =
                        IF Len(appended) > MAX_WORKFLOW_HISTORY
                        THEN SubSeq(appended, 1, Len(appended) - 1)
                        ELSE appended
        ELSE /\ last' = Did(IF edit_enabled THEN "edit_invalid" ELSE "edit_disabled",
                            NoRun, 0, code_editor)
             /\ UNCHANGED <<current_viz, workflow_history>>

\* Lines 396-411: the "Execute Code" button.
ExecuteCode(texts, cap, manualcap) ==
    /\ current_viz # None
    /\ \E edit_enabled \in BOOLEAN, code_editor \in texts \cup {current_viz[1]} :
        IF edit_enabled
        THEN IF validate_d3_code(code_editor)
             THEN LET appended == Append(workflow_history,
                                         [request |-> "Manual code edit",
                                          code    |-> code_editor])
                  IN  /\ Len(workflow_history) < cap
                      /\ ManualEntries < manualcap
                      /\ last' = Did("edit", NoRun, 0, code_editor)
                      /\ current_viz' = Some(code_editor)
                      /\ workflow_history' =
                             IF Len(appended) > MAX_WORKFLOW_HISTORY
                             THEN Tail(appended)
                             ELSE appended
             ELSE /\ last' = Did("edit_invalid", NoRun, 0, code_editor)
                  /\ UNCHANGED <<current_viz, workflow_history>>
        ELSE /\ last' = Did("edit_disabled", NoRun, 0, code_editor)
             /\ UNCHANGED <<current_viz, workflow_history>>

\* A revert that drops the steps after the one reverted to.
RevertTruncating ==
    \E i \in 1..Len(workflow_history) :
        LET step == workflow_history[i] IN
        /\ current_viz' = Some(step.code)
        /\ last' = Did("revert", NoRun, i, <<>>)
        /\ workflow_history' = SubSeq(workflow_history, 1, i)

\* A revert that rolls the history back to before the step reverted to.
RevertDropping ==
    \E i \in 1..Len(workflow_history) :
        LET step == workflow_history[i] IN
        /\ current_viz' = Some(step.code)
        /\ last' = Did("revert", NoRun, i, <<>>)
        /\ workflow_history' = SubSeq(workflow_history, 1, i - 1)

\* Lines 418-425: a "Revert to Step i" button.
RevertToStep ==
    \E i \in 1..Len(workflow_history) :
        LET step == workflow_history[i] IN
        /\ current_viz' = Some(step.code)
        /\ last' = Did("revert", NoRun, i, <<>>)
        /\ UNCHANGED workflow_history

\* The bookkeeping of a script run: a revert sets `reverted`, an append (a manual
\* edit accepted, a generation request that returned) clears it.
Noted ==
    /\ reverted' = CASE last'.op = "revert" -> TRUE
                      [] last'.op = "edit" -> FALSE
                      [] last'.op \in {"initial", "update"} /\ last'.run.status = "ok" -> FALSE
                      [] OTHER -> reverted
    /\ UNCHANGED text_vars

\* Every backend outcome, short histories.
Next ==
    \/ InitialGeneration(PipelineRuns) /\ Noted
    \/ UpdateVisualization(PipelineRuns, MaxHistory) /\ Noted
    \/ ExecuteCode(EditorTexts, MaxHistory, MaxHistory) /\ Noted
    \/ RevertToStep /\ Noted

Spec == Init /\ [][Next]_vars

\* A backend that answers well, histories past the capacity.
NextLong ==
    \/ InitialGeneration(NominalRuns) /\ Noted
    \/ UpdateVisualization(NominalRuns, MaxLongHistory) /\ Noted
    \/ ExecuteCode(NominalEditorTexts, MaxLongHistory, MaxManualEntries) /\ Noted
    \/ RevertToStep /\ Noted

SpecLong == Init /\ [][NextLong]_vars

-----------------------------------------------------------------------------
(* The sanitizer and the validator on their own *)

Alphabet == {NL, Sp, Fence, Lang, Hash, LBrace, RBrace, FnHead, FnHeadWide, Params, Js,
             "d3.select"}

\* Bound on the length of the texts enumerated.
MaxTextLen == 3
\* Bound on the sanitizer passes applied to one text.
MaxPasses == 2

ShortTexts == UNION {[1..n -> Alphabet] : n \in 0..MaxTextLen}

Texts == ShortTexts \cup {RawValid, RawBare, RawInvalid, RawEmpty, EditedCode, BrokenEdit,
                          generate_fallback_visualization}

InitText ==
    /\ NewSession
    /\ text \in Texts
    /\ cleaned = <<>>
    /\ verdict = Unchecked

\* The text as it stands: as given, or as the latest sanitizer pass left it.
Standing == IF cleaned = <<>> THEN text ELSE cleaned[Len(cleaned)]

\* One call of clean_d3_response on the text as it stands.
Sanitize ==
    /\ Len(cleaned) < MaxPasses
    /\ cleaned' = Append(cleaned, clean_d3_response(Standing))
    /\ verdict' = Unchecked
    /\ UNCHANGED text
    /\ UNCHANGED session_vars

\* One call of validate_d3_code on the text as it stands.
Validate ==
    /\ verdict' = [checked |-> TRUE, code |-> Standing, result |-> validate_d3_code(Standing)]
    /\ UNCHANGED <<text, cleaned>>
    /\ UNCHANGED session_vars

NextText == Sanitize \/ Validate

SpecText == InitText /\ [][NextText]_vars

-----------------------------------------------------------------------------
(* Properties *)

\* The latest script run handled a generation request (initial or update).
Requested == last.op \in {"initial", "update"}
\* ... and the pipeline returned an artifact, which the handler stored.
Returned  == Requested /\ last.run.status = "ok"

Latest == workflow_history[Len(workflow_history)]

FallbackArtifact == clean_d3_response(generate_fallback_visualization)

\* The sanitized result of the i-th backend call of the latest run.
Attempt(i) == clean_d3_response(last.run.trace[i].text)

\* C1: whenever the pipeline returns an artifact, the artifact passes
\* validate_d3_code, and so does what becomes the current artifact and the latest
\* history entry after an initial generation or an update.
C1_ReturnedArtifactValid ==
    Returned =>
        /\ validate_d3_code(last.run.code)
        /\ current_viz = Some(last.run.code)
        /\ Latest.code = last.run.code

\* C2: when max_attempts refinement attempts were made and none produced a valid
\* result, the pipeline's result is the fallback artifact.
Exhausted ==
    /\ Returned
    /\ last.run.refine_calls = max_attempts
    /\ \A i \in 2..Len(last.run.trace) : ~validate_d3_code(Attempt(i))

C2_ExhaustedYieldsFallback ==
    Exhausted => last.run.code \in {generate_fallback_visualization, FallbackArtifact}

\* C3: a request makes exactly one generation call, at most max_attempts
\* refinement calls, and so at most 1 + max_attempts backend calls in all.
C3_BoundedBackendCalls ==
    Requested =>
        /\ last.run.gen_calls = 1
        /\ last.run.refine_calls <= max_attempts
        /\ Len(last.run.trace) = last.run.gen_calls + last.run.refine_calls
        /\ Len(last.run.trace) <= 1 + max_attempts

C3_Witness == Requested /\ last.run.refine_calls = max_attempts

\* C4: the workflow history never holds more than MAX_WORKFLOW_HISTORY entries.
C4_HistoryWithinCapacity == Len(workflow_history) <= MAX_WORKFLOW_HISTORY

\* C5: an append (initial generation, update or manual edit) that would exceed the
\* capacity evicts exactly the oldest entry; another append evicts nothing; the
\* entries that stay keep their order.
Appended == last'.op = "edit" \/ (last'.op \in {"initial", "update"} /\ last'.run.status = "ok")

C5_AppendEvictsOldest ==
    [][Appended =>
         /\ workflow_history' # <<>>
         /\ SubSeq(workflow_history', 1, Len(workflow_history') - 1) =
                IF Len(workflow_history) + 1 > MAX_WORKFLOW_HISTORY
                THEN Tail(workflow_history)
                ELSE workflow_history]_vars

\* C6 (as claimed): with a backend that returns an empty string on every call, the
\* pipeline makes exactly max_attempts refinement attempts and yields the fallback.
OnlyEmptyReplies ==
    Requested /\ \A i \in 1..Len(last.run.trace) : last.run.trace[i] = Text(RawEmpty)

SomeCallRaised ==
    Requested /\ \E i \in 1..Len(last.run.trace) : last.run.trace[i] = Raise

C7_TransportErrorYieldsFallback ==
    SomeCallRaised =>
        /\ last.run.status = "ok"
        /\ last.run.code = FallbackArtifact
        /\ last.run.trace[Len(last.run.trace)] = Raise

\* C8: if the first reply passes the validator once sanitized, no refinement call
\* is made and the entry appended holds exactly the sanitized first reply.
FirstReplyValid ==
    /\ Requested
    /\ last.run.trace[1].kind = "text"
    /\ validate_d3_code(Attempt(1))

C8_ValidFirstReplyStored ==
    FirstReplyValid =>
        /\ last.run.status = "ok"
        /\ last.run.refine_calls = 0
        /\ last.run.code = Attempt(1)
        /\ Latest.code = Attempt(1)
        /\ current_viz = Some(Attempt(1))

C8_Witness ==
    /\ FirstReplyValid
    /\ last.op = "update"
    /\ last.run.trace[1].text # Attempt(1)
    /\ Len(workflow_history) > 1

\* C9: the fallback passes the validator, still passes once sanitized, and a
\* fallback produced by generate_d3_code is returned without a refinement call.
C9_FallbackValid ==
    /\ HasSignature(generate_fallback_visualization)
    /\ HasD3Method(generate_fallback_visualization)
    /\ BalancedBraces(generate_fallback_visualization)
    /\ validate_d3_code(generate_fallback_visualization)
    /\ validate_d3_code(FallbackArtifact)
    /\ (Requested /\ last.run.fellback) =>
           /\ last.run.status = "ok"
           /\ last.run.refine_calls = 0
           /\ last.run.code = FallbackArtifact

C9_Witness ==
    /\ Requested /\ last.run.fellback
    /\ current_viz = Some(FallbackArtifact)
    /\ FallbackArtifact # generate_fallback_visualization

\* C10: a revert leaves the history as it is (length, order, entries; later
\* entries stay) and sets the current artifact to the stored artifact of the
\* step; a second revert to the same step gives the same current artifact.
C10_RevertIsPureRead ==
    [][last'.op = "revert" =>
         /\ workflow_history' = workflow_history
         /\ last'.step \in 1..Len(workflow_history)
         /\ current_viz' = Some(workflow_history[last'.step].code)
         /\ (last.op = "revert" /\ last.step = last'.step => current_viz' = current_viz)]_vars

C10_Witness ==
    /\ last.op = "revert"
    /\ last.step < Len(workflow_history)
    /\ current_viz # Some(Latest.code)

\* The oldest entry has left the store: the entry of the initial generation, which
\* is appended first, is no longer the head.
HeadEvicted ==
    /\ workflow_history # <<>>
    /\ workflow_history[1].request # "Initial comparative visualization"

\* C11: in every state in which no revert has happened since the latest append,
\* the current visualization is the code of the latest history entry, whichever
\* kind of append it was and whether or not the append evicted an entry.
C11_CurrentIsLatestUnlessReverted ==
    (workflow_history # <<>> /\ ~reverted) => current_viz = Some(Latest.code)

\* A manual edit has just evicted the oldest entry.
C11_Witness ==
    /\ ~reverted
    /\ last.op = "edit"
    /\ HeadEvicted
    /\ Len(workflow_history) = MAX_WORKFLOW_HISTORY
    /\ current_viz = Some(Latest.code)
    /\ \E i \in 1..Len(workflow_history) : workflow_history[i].code # Latest.code

\* C12: the first generation that completes leaves the history non-empty, and no
\* later update, manual edit, eviction or revert empties it again.
C12_HistoryStaysNonEmpty ==
    [][/\ (last'.op = "initial" /\ last'.run.status = "ok") => workflow_history' # <<>>
       /\ workflow_history # <<>> => workflow_history' # <<>>]_vars

\* A revert after an eviction, the history still holding entries.
C12_Witness ==
    /\ last.op = "revert"
    /\ HeadEvicted
    /\ Len(workflow_history) >= MAX_WORKFLOW_HISTORY

\* C13: every entry in the store carries a sequence number, greater than the
\* sequence number of every entry before it.
C13_EveryEntryNumbered ==
    \A i \in 1..Len(workflow_history) :
        /\ "version" \in DOMAIN workflow_history[i]
        /\ \A j \in 1..(i - 1) :
               /\ "version" \in DOMAIN workflow_history[j]
               /\ workflow_history[j].version < workflow_history[i].version

\* The first sanitizer pass had fences to strip.
HadFence == Contains(text, Fence)

\* The first sanitizer pass had blank or '#' lines to drop.
HadDroppedLine ==
    LET lines == Split(StripFences(text))
    IN  \E i \in 1..Len(lines) : ~LooksLikeJs(lines[i])

\* The first sanitizer pass synthesized the wrapper.
HadNoEntryLine == ~HasEntryLine(KeepJsLines(Split(StripFences(text))))

\* C14: sanitizing is idempotent: every further pass of clean_d3_response returns
\* what the first pass returned.
C14_SanitizeIdempotent ==
    \A i \in 2..Len(cleaned) : cleaned[i] = cleaned[1]

\* A second pass over a text whose first pass stripped a fence, dropped a line
\* and synthesized the wrapper, and changed the text in doing so.
C14_Witness ==
    /\ Len(cleaned) >= 2
    /\ HadFence /\ HadDroppedLine /\ HadNoEntryLine
    /\ cleaned[1] # text
    /\ Contains(cleaned[1], Js)

\* The sanitized text of the i-th backend call of a run.
AttemptOf(run, i) == clean_d3_response(run.trace[i].text)

\* C15: a request that completes appends exactly one entry, which holds the
\* pipeline's final artifact, and makes that artifact current; what an intermediate
\* refinement attempt produced, when it is not the final artifact, is neither
\* appended nor made current.
C15_OnlyFinalArtifactStored ==
    [][(last'.op \in {"initial", "update"} /\ last'.run.status = "ok") =>
          LET run == last'.run
              n   == Len(run.trace)
          IN  /\ Len(workflow_history') = Len(workflow_history) + 1
              /\ SubSeq(workflow_history', 1, Len(workflow_history)) = workflow_history
              /\ workflow_history'[Len(workflow_history')].code = run.code
              /\ current_viz' = Some(run.code)
              /\ \A i \in 2..(n - 1) :
                     AttemptOf(run, i) # run.code =>
                         /\ current_viz' # Some(AttemptOf(run, i))
                         /\ workflow_history'[Len(workflow_history')].code # AttemptOf(run, i)
      ]_vars

\* An update that took several refinement attempts, an earlier one of which
\* produced something else than the final artifact.
C15_Witness ==
    /\ last.op = "update"
    /\ last.run.status = "ok"
    /\ last.run.refine_calls >= 2
    /\ AttemptOf(last.run, 2) # last.run.code
    /\ Len(workflow_history) >= 2
    /\ Latest.code = last.run.code
    /\ \A i \in 1..Len(workflow_history) : workflow_history[i].code # AttemptOf(last.run, 2)

\* C16: validate_d3_code answers true exactly when the entry-point signature is
\* present, one of d3.select, d3.scaleLinear, d3.axisBottom, d3.axisLeft occurs
\* and there are as many '{' as '}', false when any of the three fails, and the
\* text it was given is left as it was.
C16_ValidatorThreeChecks ==
    [][verdict'.checked =>
          LET code == verdict'.code IN
          /\ code = Standing
          /\ verdict'.result =
                 (/\ HasSignature(code)
                  /\ \E m \in {"d3.select", "d3.scaleLinear", "d3.axisBottom", "d3.axisLeft"} :
                         Contains(code, m)
                  /\ Count(code, "{") = Count(code, "}"))
          /\ text' = text
          /\ cleaned' = cleaned
      ]_vars

\* A text refused for its braces alone.
C16_Witness ==
    /\ verdict.checked
    /\ ~verdict.result
    /\ HasSignature(verdict.code)
    /\ HasD3Method(verdict.code)
    /\ Count(verdict.code, LBrace) > Count(verdict.code, RBrace)

\* C17: "Execute Code" takes the editor's code only when editing is enabled and
\* the code validates: the code becomes current and one entry holding it is
\* appended (the oldest entry may leave in the same step). With editing disabled, or with code that does not validate, the
\* current visualization and the history stay as they were.
C17_ManualEditGuarded ==
    [][/\ last'.op = "edit" =>
            /\ validate_d3_code(last'.editor)
            /\ current_viz' = Some(last'.editor)
            /\ LET appended == Append(workflow_history,
                                      [request |-> "Manual code edit",
                                       code    |-> last'.editor])
               IN  workflow_history' \in {appended, Tail(appended)}
       /\ last'.op = "edit_invalid" =>
            /\ ~validate_d3_code(last'.editor)
            /\ UNCHANGED <<current_viz, workflow_history>>
       /\ last'.op = "edit_disabled" =>
            UNCHANGED <<current_viz, workflow_history>>
      ]_vars

\* An edit refused for its code after an edit taken, and an edit taken that
\* changed what is shown.
C17_Witness ==
    /\ last.op = "edit_invalid"
    /\ ~validate_d3_code(last.editor)
    /\ current_viz # Some(last.editor)
    /\ \E i \in 1..Len(workflow_history) :
           /\ IsManual(workflow_history[i])
           /\ current_viz = Some(workflow_history[i].code)

\* C18: a generation request whose pipeline raises leaves the session as it was:
\* the current visualization keeps its value and the history its entries.
C18_FailedRequestChangesNothing ==
    [][(last'.op \in {"initial", "update"} /\ last'.run.status = "raised") =>
          /\ current_viz' = current_viz
          /\ workflow_history' = workflow_history
      ]_vars

\* An update whose refinement call raised, in a session that shows a visualization.
C18_Witness ==
    /\ last.op = "update"
    /\ last.run.status = "raised"
    /\ last.run.refine_calls >= 1
    /\ last.run.trace[Len(last.run.trace)] = Raise
    /\ current_viz # None
    /\ workflow_history # <<>>

\* C19: the current visualization is unset or is the code of an entry that is in
\* the history now.
C19_CurrentIsInHistory ==
    \/ current_viz = None
    \/ \E i \in 1..Len(workflow_history) : current_viz = Some(workflow_history[i].code)

\* After an eviction, a revert has made current the code of a manual entry that
\* is not the code of the latest entry.
C19_Witness ==
    /\ HeadEvicted
    /\ last.op = "revert"
    /\ current_viz # Some(Latest.code)
    /\ IsManual(workflow_history[last.step])
    /\ current_viz = Some(workflow_history[last.step].code)

\* C20: among the entries that carry a version number, the numbers strictly
\* increase in store order, so no two entries carry the same one.
C20_VersionsIncrease ==
    \A i, j \in 1..Len(workflow_history) :
        (/\ i < j
         /\ ~IsManual(workflow_history[i])
         /\ ~IsManual(workflow_history[j]))
            => workflow_history[i].version < workflow_history[j].version

\* An update numbered after manual edits have evicted older entries.
C20_Witness ==
    /\ last.op = "update"
    /\ last.run.status = "ok"
    /\ HeadEvicted
    /\ ManualEntries >= 1
    /\ ~IsManual(workflow_history[1])
    /\ Latest.version = Len(workflow_history)
    /\ Latest.version > workflow_history[1].version

====
